---------------------------- MODULE Spec2Model ----------------------------
(***************************************************************************)
(* Model of src/src/camFusion_Student.cpp: the camera/lidar fusion core    *)
(* of the 3D object tracking pipeline.                                     *)
(*                                                                         *)
(*   clusterLidarWithROI       lidar points -> bounding boxes              *)
(*   clusterKptMatchesWithROI  keypoint matches -> one bounding box        *)
(*   median                    order statistic of the distance ratios      *)
(*   computeTTCCamera          TTC from keypoint distance ratios           *)
(*   computeTTCLidar           TTC from mean lidar x                       *)
(*   matchBoundingBoxes        previous box -> current box                 *)
(*                                                                         *)
(* Every function is one action (the whole call).  Each function has its   *)
(* own specification (SpecROI, SpecKpt, SpecMedian, SpecCamera, SpecLidar, *)
(* SpecMatch) in which the variables of the other functions stay idle.     *)
(*                                                                         *)
(* Numbers.  A double that is computed by +, -, *, / from integer inputs   *)
(* is an exact fraction <<n, d>> (d > 0, lowest terms); d = 0 encodes the  *)
(* IEEE specials: <<1,0>> = +inf, <<-1,0>> = -inf, <<0,0>> = NaN.          *)
(* Keypoint coordinates (cv::Point2f) are fixed point, in quarter pixels,  *)
(* so that the float -> int conversions of the code (truncation, cvRound)  *)
(* are not the identity.  Lidar coordinates are whole metres.              *)
(***************************************************************************)
EXTENDS Integers, Sequences, FiniteSets

VARIABLES
    \* clusterLidarWithROI
    boundingBoxes,    \* std::vector<BoundingBox>: <<[roi, lidarPoints]>>
    lidarPoints,      \* std::vector<LidarPoint> handed to every call
    shrinkFactor,     \* float shrinkFactor, the dyadic fraction <<n, d>>
    fpToInt,          \* what the build's double -> int conversion yields for NaN, +inf, -inf
    roiInitial,       \* lidarPoints of every box before the first call
    roiBefore,        \* lidarPoints of every box before the latest call
    roiCalls,         \* number of finished calls
    \* clusterKptMatchesWithROI
    boundingBox,      \* BoundingBox &boundingBox: [roi, kptMatches]
    kptMatchesIn,     \* std::vector<cv::DMatch> &kptMatches of the latest call
    kptBefore,        \* boundingBox.kptMatches before the latest call
    containsRounds,   \* the library's Rect::contains(Point2f) rounds the point to int
    kptCalls,
    \* median
    distRatios,       \* vector<double> &distRatios (reordered in place)
    medianRet,        \* the returned double
    medianIn,         \* distRatios as passed
    medianPc,
    \* computeTTCCamera
    camMatches,       \* std::vector<cv::DMatch> kptMatches
    camFrameRate,
    camVisited,       \* the (it1, it2) index pairs the two loops met, in order
    camRatios,        \* distRatios with the pair each ratio came from
    camTTC,
    camPc,
    \* computeTTCLidar
    lidarPointsPrev,
    lidarPointsCurr,
    frameRate,
    TTC,
    lidarPc,
    \* matchBoundingBoxes
    prevFrame,        \* DataFrame: [keypoints, boundingBoxes]
    currFrame,
    currCapacity,     \* currFrame.boundingBoxes.capacity(): 0 is a vector without storage
    matches,
    bbBestMatches,    \* std::map<int,int>
    trainTested,      \* indices i at which line 311 read currFrame.boundingBoxes[i]
                      \* (a read that faults included)
    matchPc

varsROI    == <<boundingBoxes, lidarPoints, shrinkFactor, fpToInt, roiInitial, roiBefore,
               roiCalls>>
varsKpt    == <<boundingBox, kptMatchesIn, kptBefore, containsRounds, kptCalls>>
varsMedian == <<distRatios, medianRet, medianIn, medianPc>>
varsCamera == <<camMatches, camFrameRate, camVisited, camRatios, camTTC, camPc>>
varsLidar  == <<lidarPointsPrev, lidarPointsCurr, frameRate, TTC, lidarPc>>
varsMatch  == <<prevFrame, currFrame, currCapacity, matches, bbBestMatches, trainTested,
               matchPc>>
vars       == <<varsROI, varsKpt, varsMedian, varsCamera, varsLidar, varsMatch>>

-----------------------------------------------------------------------------
(* Bounds of the model. *)

MaxLidarPoints == 2     \* length of a lidar point vector
MaxCalls == 2           \* repeated calls of an associator on the same boxes
MaxMatches == 2         \* keypoint matches handed to the associator / the box matcher
MaxRatios == 4          \* length of the vector handed to median
MaxCamMatches == 4      \* keypoint matches handed to computeTTCCamera

-----------------------------------------------------------------------------
(* Arithmetic. *)

Abs(a) == IF a < 0 THEN -a ELSE a

Sign(a) == IF a < 0 THEN -1 ELSE IF a > 0 THEN 1 ELSE 0

\* C++ conversion of a finite double a/b to int: truncation toward zero.
TruncDiv(a, b) == Sign(a) * Sign(b) * (Abs(a) \div Abs(b))

RECURSIVE GCD(_, _)
GCD(a, b) == IF b = 0 THEN a ELSE GCD(b, a % b)

\* The double with value n/d (d may be 0: IEEE division by +0).
Frac(n, d) ==
    IF d = 0 THEN <<Sign(n), 0>>
    ELSE LET g == GCD(Abs(n), Abs(d))
         IN  <<Sign(d) * (n \div g), Abs(d) \div g>>

NaN == <<0, 0>>
PosInf == <<1, 0>>
NegInf == <<-1, 0>>
IsFinite(a) == a[2] # 0
IsInf(a) == a[2] = 0 /\ a[1] # 0
IsNaN(a) == a = NaN

\* IEEE a / b for finite a, b.
FDiv(a, b) == Frac(a[1] * b[2], a[2] * b[1])
FMul(a, b) == Frac(a[1] * b[1], a[2] * b[2])
FAdd(a, b) == Frac(a[1] * b[2] + b[1] * a[2], a[2] * b[2])
FSub(a, b) == Frac(a[1] * b[2] - b[1] * a[2], a[2] * b[2])
FNeg(a) == <<-a[1], a[2]>>
FLess(a, b) == a[1] * b[2] < b[1] * a[2]
FInt(n) == <<n, 1>>

RECURSIVE SumSeq(_)
SumSeq(s) == IF s = <<>> THEN 0 ELSE Head(s) + SumSeq(Tail(s))

SeqsUpTo(S, n) == UNION {[1..k -> S] : k \in 0..n}

\* cv::Rect_<int>::contains(cv::Point_<int>)
Contains(roi, pt) ==
    /\ roi.x <= pt.x /\ pt.x < roi.x + roi.width
    /\ roi.y <= pt.y /\ pt.y < roi.y + roi.height

Rect(x, y, w, h) == [x |-> x, y |-> y, width |-> w, height |-> h]

-----------------------------------------------------------------------------
(* clusterLidarWithROI, lines 15-61. *)

LP(x, y, z) == [x |-> x, y |-> y, z |-> z, r |-> 0]

\* Calibration handed to the call: projection (3x4), rectification (4x4) and
\* extrinsic (4x4) matrices.  The extrinsic maps the lidar axes (x forward,
\* y left, z up) to the camera axes (x right, y down, z forward).
P_rect_xx == << <<2, 0, 4, 0>>, <<0, 2, 4, 0>>, <<0, 0, 1, 0>> >>
R_rect_xx == << <<1, 0, 0, 0>>, <<0, 1, 0, 0>>, <<0, 0, 1, 0>>, <<0, 0, 0, 1>> >>
RT == << <<0, -1, 0, 0>>, <<0, 0, -1, 0>>, <<1, 0, 0, 0>>, <<0, 0, 0, 1>> >>

\* Lidar points of the model; the last three project to w = 0.
RoiPoints ==
    { LP(1, 0, 0), LP(1, -1, 0), LP(2, 1, 0), LP(3, 7, 0),
      LP(0, 0, 0), LP(0, -1, 0), LP(0, 1, 1) }

RoiStale == LP(2, 0, 0)

RoiLayouts ==
    { <<Rect(0, 0, 8, 8)>>,
      <<Rect(0, 0, 8, 8), Rect(4, 2, 6, 6)>>,
      <<Rect(0, 0, 4, 8), Rect(4, 0, 4, 8), Rect(2, 2, 4, 4)>> }

\* Dyadic fractions: float arithmetic on them is exact.
ShrinkFactors == { <<0, 1>>, <<1, 2>> }

\* int is 32 bits wide.
IntMin == -2147483647 - 1
IntMax == 2147483646 + 1

\* double -> int of a value that is not finite is undefined; the conversion
\* instruction of the build decides.  Indexed by the sign of the numerator of
\* n/0: -1 is -inf, 0 is NaN, 1 is +inf.
\*   cvttsd2si (x86-64): the "integer indefinite" value INT_MIN for all three;
\*   fcvtzs (AArch64): saturation, and 0 for NaN.
FpToIntBuilds ==
    { [s \in {-1, 0, 1} |-> IntMin],
      [s \in {-1, 0, 1} |-> IF s = 0 THEN 0 ELSE IF s < 0 THEN IntMin ELSE IntMax] }

MatVec(M, v) ==
    [i \in 1..Len(M) |-> SumSeq([j \in 1..Len(v) |-> M[i][j] * v[j]])]

\* Y = P_rect_xx * R_rect_xx * RT * X
Project(p) ==
    MatVec(P_rect_xx, MatVec(R_rect_xx, MatVec(RT, <<p.x, p.y, p.z, 1>>)))

\* Y.at<double>(i0, i1) of the continuous 3x1 matrix Y: element i0 * 1 + i1
\* of its data (the release build of cv::Mat::at does no range check).
MatAt(Y, i0, i1) == Y[i0 * 1 + i1 + 1]

\* int = double(n) / double(d)
DoubleToInt(n, d, conv) == IF d # 0 THEN TruncDiv(n, d) ELSE conv[Sign(n)]

\* cv::Point pt of lines 31-33
LidarPixel(p, conv) ==
    LET Y == Project(p)
    IN  [x |-> DoubleToInt(MatAt(Y, 0, 0), MatAt(Y, 0, 2), conv),
         y |-> DoubleToInt(MatAt(Y, 1, 0), MatAt(Y, 0, 2), conv)]

\* cv::Rect smallerBox of lines 39-43; sf = <<n, d>> is shrinkFactor = n/d
SmallerBox(roi, sf) ==
    Rect(TruncDiv(2 * sf[2] * roi.x + sf[1] * roi.width, 2 * sf[2]),
         TruncDiv(2 * sf[2] * roi.y + sf[1] * roi.height, 2 * sf[2]),
         TruncDiv(roi.width * (sf[2] - sf[1]), sf[2]),
         TruncDiv(roi.height * (sf[2] - sf[1]), sf[2]))

\* The loop over all bounding boxes, from iterator it2 on: enclosingBoxes.
RECURSIVE EnclosingBoxes(_, _, _, _)
EnclosingBoxes(boxes, pt, sf, it2) ==
    IF it2 > Len(boxes) THEN <<>>
    ELSE (IF Contains(SmallerBox(boxes[it2].roi, sf), pt) THEN <<it2>> ELSE <<>>)
         \o EnclosingBoxes(boxes, pt, sf, it2 + 1)

AddsPointAny(enclosingBoxes) == Len(enclosingBoxes) >= 1

\* if (enclosingBoxes.size() == 1)
AddsPoint(enclosingBoxes) == Len(enclosingBoxes) = 1

\* The loop over all lidar points, from iterator it1 on.
RECURSIVE ClusterLoop(_, _, _, _, _)
ClusterLoop(boxes, pts, it1, sf, conv) ==
    IF it1 > Len(pts) THEN boxes
    ELSE LET pt == LidarPixel(pts[it1], conv)
             enclosingBoxes == EnclosingBoxes(boxes, pt, sf, 1)
             next == IF AddsPoint(enclosingBoxes)
                     THEN [boxes EXCEPT ![enclosingBoxes[1]].lidarPoints =
                                             Append(@, pts[it1])]
                     ELSE boxes
         IN  ClusterLoop(next, pts, it1 + 1, sf, conv)

clusterLidarWithROI_reset(boxes, pts, sf, conv) ==
    ClusterLoop([b \in DOMAIN boxes |-> [boxes[b] EXCEPT !.lidarPoints = <<>>]],
                pts, 1, sf, conv)

clusterLidarWithROI(boxes, pts, sf, conv) == ClusterLoop(boxes, pts, 1, sf, conv)

InitROI ==
    /\ \E layout \in RoiLayouts, pre \in {<<>>, <<RoiStale>>} :
          /\ boundingBoxes =
                [b \in DOMAIN layout |-> [roi |-> layout[b], lidarPoints |-> pre]]
          /\ roiInitial = [b \in DOMAIN layout |-> pre]
          /\ roiBefore = [b \in DOMAIN layout |-> pre]
    /\ lidarPoints \in SeqsUpTo(RoiPoints, MaxLidarPoints)
    /\ shrinkFactor \in ShrinkFactors
    /\ fpToInt \in FpToIntBuilds
    /\ roiCalls = 0

IdleROI ==
    /\ boundingBoxes = <<>> /\ lidarPoints = <<>> /\ shrinkFactor = <<0, 1>>
    /\ fpToInt = [s \in {-1, 0, 1} |-> IntMin] /\ roiInitial = <<>> /\ roiBefore = <<>>
    /\ roiCalls = 0

CallClusterLidarWithROI ==
    /\ roiCalls < MaxCalls
    /\ boundingBoxes' =
          clusterLidarWithROI(boundingBoxes, lidarPoints, shrinkFactor, fpToInt)
    /\ roiBefore' = [b \in DOMAIN boundingBoxes |-> boundingBoxes[b].lidarPoints]
    /\ roiCalls' = roiCalls + 1
    /\ UNCHANGED <<lidarPoints, shrinkFactor, fpToInt, roiInitial>>

-----------------------------------------------------------------------------
(* Keypoints and matches. *)

\* cv::KeyPoint with pt = (xq / 4, yq / 4) pixels
KeyPoint(xq, yq) == [x |-> xq, y |-> yq]

\* cv::DMatch; the indices are 0-based as in the source
DMatch(queryIdx, trainIdx, distance) ==
    [queryIdx |-> queryIdx, trainIdx |-> trainIdx, distance |-> distance]

\* std::vector::at / operator[] with a 0-based index
At(v, idx) == v[idx + 1]

\* cvRound of a float given in quarter units: nearest integer, ties to even
CvRound(q) ==
    LET f == q \div 4
        r == q % 4
    IN  IF r < 2 THEN f
        ELSE IF r > 2 THEN f + 1
        ELSE IF f % 2 = 0 THEN f ELSE f + 1

\* cv::Point2f -> cv::Point_<int> (operator Point_<int>: saturate_cast<int>,
\* which is cvRound), the conversion roi.contains(Point2f) goes through
PointRounded(kp) == [x |-> CvRound(kp.x), y |-> CvRound(kp.y)]

\* cv::Point(kp.pt.x, kp.pt.y): float -> int, truncation toward zero
PointTruncated(kp) == [x |-> TruncDiv(kp.x, 4), y |-> TruncDiv(kp.y, 4)]

-----------------------------------------------------------------------------
(* clusterKptMatchesWithROI, lines 133-164. *)

KptRois == { Rect(10, 10, 10, 10), Rect(0, 0, 12, 30) }

\* kptsCurr: (12, 12), (9.5, 12), (19.5, 12), (30, 12), (15, 15)
KptsCurrROI ==
    << KeyPoint(48, 48), KeyPoint(38, 48), KeyPoint(78, 48), KeyPoint(120, 48),
       KeyPoint(60, 60) >>

KptRoiMatches ==
    { DMatch(0, 0, 2), DMatch(1, 4, 6), DMatch(2, 0, 4), DMatch(3, 3, 1),
      DMatch(4, 1, 3), DMatch(5, 2, 1) }

\* Rect_<int>::contains(Point_<float>) comparing the float coordinates
\* themselves (the member template of the newer library versions)
ContainsExact(roi, kp) ==
    /\ 4 * roi.x <= kp.x /\ kp.x < 4 * (roi.x + roi.width)
    /\ 4 * roi.y <= kp.y /\ kp.y < 4 * (roi.y + roi.height)

\* boundingBox.roi.contains(kptsCurr.at(match.trainIdx).pt): the library
\* versions of the project's time convert the Point2f to Point_<int> first
\* (rounds), the newer ones compare the float coordinates.
InROI(roi, kptsCurr, match, rounds) ==
    IF rounds THEN Contains(roi, PointRounded(At(kptsCurr, match.trainIdx)))
    ELSE ContainsExact(roi, At(kptsCurr, match.trainIdx))

\* The first loop: kptMatchesROI.
KptMatchesROI(roi, kptsCurr, kptMatches, rounds) ==
    SelectSeq(kptMatches, LAMBDA match : InROI(roi, kptsCurr, match, rounds))

RECURSIVE SumDistance(_)
SumDistance(ms) ==
    IF ms = <<>> THEN 0 ELSE Head(ms).distance + SumDistance(Tail(ms))

\* avgDist of lines 146-149
AvgDist(kptMatchesROI) == Frac(SumDistance(kptMatchesROI), Len(kptMatchesROI))

\* double threshold = avgDist * 0.8
Threshold(avgDist) == FMul(avgDist, <<4, 5>>)

\* The whole call: the new value of boundingBox.
clusterKptMatchesWithROI(box, kptsCurr, kptMatches, rounds) ==
    LET kptMatchesROI == KptMatchesROI(box.roi, kptsCurr, kptMatches, rounds)
    IN  IF Len(kptMatchesROI) > 0
        THEN LET threshold == Threshold(AvgDist(kptMatchesROI))
             IN  [box EXCEPT !.kptMatches =
                     @ \o SelectSeq(kptMatchesROI,
                                    LAMBDA itr : FLess(FInt(itr.distance), threshold))]
        ELSE box

InitKpt ==
    /\ \E roi \in KptRois : boundingBox = [roi |-> roi, kptMatches |-> <<>>]
    /\ kptMatchesIn = <<>>
    /\ kptBefore = <<>>
    /\ containsRounds \in BOOLEAN
    /\ kptCalls = 0

IdleKpt ==
    /\ boundingBox = [roi |-> Rect(0, 0, 0, 0), kptMatches |-> <<>>]
    /\ kptMatchesIn = <<>> /\ kptBefore = <<>> /\ containsRounds = TRUE
    /\ kptCalls = 0

CallClusterKptMatchesWithROI ==
    /\ kptCalls < MaxCalls
    /\ \E kptMatches \in SeqsUpTo(KptRoiMatches, MaxMatches) :
          /\ kptMatchesIn' = kptMatches
          /\ boundingBox' =
                clusterKptMatchesWithROI(boundingBox, KptsCurrROI, kptMatches,
                                         containsRounds)
    /\ kptBefore' = boundingBox.kptMatches
    /\ UNCHANGED containsRounds
    /\ kptCalls' = kptCalls + 1

-----------------------------------------------------------------------------
(* median, lines 166-183. *)

RatioValues == { <<1, 1>>, <<3, 2>>, <<2, 1>>, <<5, 2>> }

Perms(k) == {f \in [1..k -> 1..k] : \A a, b \in 1..k : f[a] = f[b] => a = b}

\* std::nth_element(v.begin(), v.begin() + n, v.end()): every rearrangement
\* of v in which no element before position n is greater than v[n] and no
\* element after it is less (which of them is the library's choice).
NthElement(v, n) ==
    { w \in {[i \in 1..Len(v) |-> v[f[i]]] : f \in Perms(Len(v))} :
         /\ \A i \in 1..n : ~FLess(At(w, n), w[i])
         /\ \A i \in (n + 2)..Len(v) : ~FLess(w[i], At(w, n)) }

MedianOutcomesOnePass(v) ==
    LET size == Len(v)
        n == size \div 2
    IN  IF size = 0 THEN { [retVal |-> FInt(0), distRatios |-> v] }
        ELSE { [retVal |-> IF size % 2 = 0
                           THEN FDiv(FAdd(At(w, n), At(w, n - 1)), FInt(2))
                           ELSE At(w, n),
                distRatios |-> w] : w \in NthElement(v, n) }

\* The whole call: the returned value and the vector as the call leaves it.
MedianOutcomes(v) ==
    LET size == Len(v)
        n == size \div 2
    IN  IF size = 0 THEN { [retVal |-> FInt(0), distRatios |-> v] }
        ELSE UNION { IF size % 2 = 0
                     THEN { [retVal |-> FDiv(FAdd(At(w1, n), At(w2, n - 1)), FInt(2)),
                             distRatios |-> w2] : w2 \in NthElement(w1, n - 1) }
                     ELSE { [retVal |-> At(w1, n), distRatios |-> w1] }
                   : w1 \in NthElement(v, n) }

\* The value std::nth_element leaves at position n: the element x of v with
\* at most n elements less than x and more than n elements not greater.
NthValue(v, n) ==
    CHOOSE x \in {v[i] : i \in DOMAIN v} :
        /\ Cardinality({i \in DOMAIN v : FLess(v[i], x)}) <= n
        /\ Cardinality({i \in DOMAIN v : ~FLess(x, v[i])}) > n

\* The returned value alone (it does not depend on the library's choice).
median(v) ==
    LET size == Len(v)
        n == size \div 2
    IN  IF size = 0 THEN FInt(0)
        ELSE IF size % 2 = 0
        THEN FDiv(FAdd(NthValue(v, n), NthValue(v, n - 1)), FInt(2))
        ELSE NthValue(v, n)

InitMedian ==
    /\ medianIn \in SeqsUpTo(RatioValues, MaxRatios)
    /\ distRatios = medianIn
    /\ medianRet = NaN
    /\ medianPc = "start"

IdleMedian ==
    /\ medianIn = <<>> /\ distRatios = <<>> /\ medianRet = NaN /\ medianPc = "idle"

CallMedian ==
    /\ medianPc = "start"
    /\ \E out \in MedianOutcomes(distRatios) :
          /\ medianRet' = out.retVal
          /\ distRatios' = out.distRatios
    /\ medianPc' = "done"
    /\ UNCHANGED medianIn

-----------------------------------------------------------------------------
(* computeTTCCamera, lines 186-238. *)

\* double minDist = 100.0
minDist == 100

\* Keypoints on the line through (0, 0) and (3, 4): every distance between
\* two of them is a whole number of quarter pixels, so cv::norm is exact.
OnLine(t) == KeyPoint(4 * 3 * t, 4 * 4 * t)

CamKptsPrev == << OnLine(0), OnLine(10), OnLine(25), OnLine(40), OnLine(30) >>
CamKptsCurr == << OnLine(0), OnLine(20), OnLine(60), OnLine(100), OnLine(70) >>

CamMatchSet ==
    { DMatch(0, 0, 1), DMatch(1, 1, 1), DMatch(2, 2, 1), DMatch(3, 3, 1),
      DMatch(4, 4, 1), DMatch(0, 1, 1) }

CamFrameRates == { 10 }

\* floor of the square root, by bisection on lo <= sqrt(n) < hi
RECURSIVE ISqrt(_, _, _)
ISqrt(n, lo, hi) ==
    IF hi - lo <= 1 THEN lo
    ELSE LET mid == (lo + hi) \div 2
         IN  IF mid * mid <= n THEN ISqrt(n, mid, hi) ELSE ISqrt(n, lo, mid)

\* cv::norm(a.pt - b.pt), in quarter pixels
NormQ(a, b) ==
    LET dx == a.x - b.x
        dy == a.y - b.y
    IN  ISqrt(dx * dx + dy * dy, 0, Abs(dx) + Abs(dy) + 1)

\* for (auto it2 = kptMatches.begin() + 1; ...
InnerFirst(it1) == 1

\* The index pairs (it1, it2) of the two loops, in the order they are met:
\* it1 from begin() up to end() - 1, it2 from InnerFirst up to end().
RECURSIVE LoopPairs(_, _, _)
LoopPairs(size, it1, it2) ==
    IF it1 >= size - 1 THEN <<>>
    ELSE IF it2 >= size THEN LoopPairs(size, it1 + 1, InnerFirst(it1 + 1))
    ELSE <<<<it1, it2>>>> \o LoopPairs(size, it1, it2 + 1)

\* Lines 202-223 for one pair: the ratio pushed onto distRatios, if any.
PairRatio(kptsPrev, kptsCurr, kptMatches, pair) ==
    LET m1 == At(kptMatches, pair[1])
        m2 == At(kptMatches, pair[2])
        distCurr == NormQ(At(kptsCurr, m1.trainIdx), At(kptsCurr, m2.trainIdx))
        distPrev == NormQ(At(kptsPrev, m1.queryIdx), At(kptsPrev, m2.queryIdx))
    IN  IF distPrev > 0 /\ distCurr >= 4 * minDist
        THEN << [it1 |-> pair[1], it2 |-> pair[2],
                 distRatio |-> FDiv(Frac(distCurr, 4), Frac(distPrev, 4))] >>
        ELSE <<>>

RECURSIVE CollectRatios(_, _, _, _)
CollectRatios(kptsPrev, kptsCurr, kptMatches, pairs) ==
    IF pairs = <<>> THEN <<>>
    ELSE PairRatio(kptsPrev, kptsCurr, kptMatches, Head(pairs))
         \o CollectRatios(kptsPrev, kptsCurr, kptMatches, Tail(pairs))

\* TTC = -dT / (1 - medianDistRatios), dT = 1.0f / frameRate
CameraTTC(rate, medianDistRatios) ==
    FDiv(FNeg(Frac(1, rate)), FSub(FInt(1), medianDistRatios))

\* A matcher reports a correspondence once: no entry occurs twice.
InitCamera ==
    /\ camMatches \in { ms \in SeqsUpTo(CamMatchSet, MaxCamMatches) :
                          \A a, b \in DOMAIN ms : ms[a] = ms[b] => a = b }
    /\ camFrameRate \in CamFrameRates
    /\ camVisited = <<>>
    /\ camRatios = <<>>
    /\ camTTC = FInt(0)
    /\ camPc = "start"

IdleCamera ==
    /\ camMatches = <<>> /\ camFrameRate = 10 /\ camVisited = <<>>
    /\ camRatios = <<>> /\ camTTC = FInt(0) /\ camPc = "idle"

CallComputeTTCCamera ==
    /\ camPc = "start"
    /\ LET pairs == IF Len(camMatches) = 0 THEN <<>>
                    ELSE LoopPairs(Len(camMatches), 0, InnerFirst(0))
           ratios == CollectRatios(CamKptsPrev, CamKptsCurr, camMatches, pairs)
       IN  /\ camVisited' = pairs
           /\ camRatios' = ratios
           /\ IF Len(camMatches) = 0 \/ Len(ratios) = 0
              THEN camTTC' = NaN
              ELSE camTTC' = CameraTTC(camFrameRate,
                                       median([i \in 1..Len(ratios) |-> ratios[i].distRatio]))
    /\ camPc' = "done"
    /\ UNCHANGED <<camMatches, camFrameRate>>

-----------------------------------------------------------------------------
(* computeTTCLidar, lines 241-277. *)

\* double laneWidth = 4.0
laneWidth == 4

TTCPoints ==
    { LP(8, 0, 0), LP(10, 2, 0), LP(12, -2, 1), LP(0, 0, 0), LP(9, 3, 0),
      LP(-8, 1, 0) }

FrameRates == { 10, 20 }

\* if (abs(it->y) <= laneWidth / 2.0) x.push_back(it->x)
RECURSIVE InLaneX(_)
InLaneX(pts) ==
    IF pts = <<>> THEN <<>>
    ELSE (IF 2 * Abs(Head(pts).y) <= laneWidth THEN <<Head(pts).x>> ELSE <<>>)
         \o InLaneX(Tail(pts))

\* std::accumulate(x.begin(), x.end(), 0.0) / x.size()
AvgX(xs) == Frac(SumSeq(xs), Len(xs))

LidarTTCFormulaPrev(avgXPrev, avgXCurr, rate) ==
    FDiv(FMul(avgXPrev, Frac(1, rate)), FSub(avgXPrev, avgXCurr))

\* TTC = avgXCurr * dT / (avgXPrev - avgXCurr), dT = 1.0f / frameRate
LidarTTCFormula(avgXPrev, avgXCurr, rate) ==
    FDiv(FMul(avgXCurr, Frac(1, rate)), FSub(avgXPrev, avgXCurr))

\* The whole call: the value left in TTC.
computeTTCLidar(prev, curr, rate) ==
    LET prev_x == InLaneX(prev)
        curr_x == InLaneX(curr)
    IN  IF Len(prev_x) > 0 /\ Len(curr_x) > 0
        THEN LidarTTCFormula(AvgX(prev_x), AvgX(curr_x), rate)
        ELSE NaN

InitLidar ==
    /\ lidarPointsPrev \in SeqsUpTo(TTCPoints, MaxLidarPoints)
    /\ lidarPointsCurr \in SeqsUpTo(TTCPoints, MaxLidarPoints)
    /\ frameRate \in FrameRates
    /\ TTC = FInt(0)
    /\ lidarPc = "start"

IdleLidar ==
    /\ lidarPointsPrev = <<>> /\ lidarPointsCurr = <<>> /\ frameRate = 10
    /\ TTC = FInt(0) /\ lidarPc = "idle"

CallComputeTTCLidar ==
    /\ lidarPc = "start"
    /\ TTC' = computeTTCLidar(lidarPointsPrev, lidarPointsCurr, frameRate)
    /\ lidarPc' = "done"
    /\ UNCHANGED <<lidarPointsPrev, lidarPointsCurr, frameRate>>

-----------------------------------------------------------------------------
(* matchBoundingBoxes, lines 280-348. *)

BoxA == Rect(0, 0, 10, 10)
BoxB == Rect(5, 0, 15, 10)

PrevLayouts == { <<>>, <<BoxA>>, <<BoxA, BoxB>> }
CurrLayouts == { <<>>, <<BoxA>>, <<BoxA, BoxB>> }

\* (2, 2) in A; (7, 2) in A and B; (12, 2) in B; (9.75, 2) in A and B;
\* (30, 30) in no box
MatchKptsPrev ==
    << KeyPoint(8, 8), KeyPoint(28, 8), KeyPoint(48, 8), KeyPoint(39, 8),
       KeyPoint(120, 120) >>

\* (2, 2) in A; (12, 2) in B; (7, 2) in A and B; (-0.5, 2) in A; (30, 30) in no box
MatchKptsCurr ==
    << KeyPoint(8, 8), KeyPoint(48, 8), KeyPoint(28, 8), KeyPoint(-2, 8),
       KeyPoint(120, 120) >>

MatchSet ==
    { DMatch(0, 0, 1), DMatch(0, 1, 1), DMatch(1, 2, 1), DMatch(2, 1, 1),
      DMatch(3, 3, 1), DMatch(4, 4, 1) }

\* The bound of the second box loop, line 309: for (int i = 0; i < prev_bb_cnt; i++)
TrainLoopRange(prev_bb_cnt, curr_bb_cnt) == 0..(prev_bb_cnt - 1)

\* Lines 300-307: queryId, the previous-frame boxes that contain queryPt.
RECURSIVE QueryId(_, _, _)
QueryId(frame, queryPt, i) ==
    IF i >= Len(frame.boundingBoxes) THEN <<>>
    ELSE (IF Contains(At(frame.boundingBoxes, i).roi, queryPt) THEN <<i>> ELSE <<>>)
         \o QueryId(frame, queryPt, i + 1)

\* Lines 309-316: trainId.  currFrame.boundingBoxes[i] with
\* i >= curr_bb_cnt reads past the end of the vector: whether the bytes
\* found there make a rectangle that contains trainPt is `garbage`.
RECURSIVE TrainId(_, _, _, _, _)
TrainId(frame, trainPt, prev_bb_cnt, garbage, i) ==
    IF i \notin TrainLoopRange(prev_bb_cnt, Len(frame.boundingBoxes)) THEN <<>>
    ELSE (IF i < Len(frame.boundingBoxes)
          THEN (IF Contains(At(frame.boundingBoxes, i).roi, trainPt) THEN <<i>> ELSE <<>>)
          ELSE (IF i \in garbage THEN <<i>> ELSE <<>>))
         \o TrainId(frame, trainPt, prev_bb_cnt, garbage, i + 1)

\* point_count[a_id_prev][a_id_curr] += 1 on the row-major array pc of
\* `cells` ints (pc is the local array of the call, gone when it returns);
\* an index past the array writes to the stack and leaves the array as it
\* is.  The add instruction wraps an int that holds INT_MAX.
Increment(pc, cells, curr_bb_cnt, a_id_prev, a_id_curr) ==
    LET flat == a_id_prev * curr_bb_cnt + a_id_curr
    IN  IF flat < cells
        THEN [pc EXCEPT ![flat] = IF @ = IntMax THEN IntMin ELSE @ + 1]
        ELSE pc

\* Lines 320-322 for one match: the double loop over queryId x trainId.
RECURSIVE AddVotes(_, _, _, _, _, _)
AddVotes(pc, cells, curr_bb_cnt, queryId, trainId, n) ==
    IF n >= Len(queryId) * Len(trainId) THEN pc
    ELSE AddVotes(Increment(pc, cells, curr_bb_cnt,
                            At(queryId, n \div Len(trainId)),
                            At(trainId, n % Len(trainId))),
                  cells, curr_bb_cnt, queryId, trainId, n + 1)

\* Lines 288-325: the loop over all matches, from match number k on.
\* garbage[k + 1] is the set of out-of-range indices whose bytes contain the
\* current keypoint of match k.
RECURSIVE CountPoints(_, _, _, _, _, _)
CountPoints(pc, prev, curr, ms, garbage, k) ==
    IF k >= Len(ms) THEN pc
    ELSE LET prev_bb_cnt == Len(prev.boundingBoxes)
             curr_bb_cnt == Len(curr.boundingBoxes)
             queryPt == PointTruncated(At(prev.keypoints, At(ms, k).queryIdx))
             trainPt == PointTruncated(At(curr.keypoints, At(ms, k).trainIdx))
             queryId == QueryId(prev, queryPt, 0)
             trainId == TrainId(curr, trainPt, prev_bb_cnt, At(garbage, k), 0)
         IN  CountPoints(AddVotes(pc, prev_bb_cnt * curr_bb_cnt, curr_bb_cnt,
                                  queryId, trainId, 0),
                         prev, curr, ms, garbage, k + 1)

\* Lines 331-340: the scan of row i from column j on; the result is id_max.
RECURSIVE BestInRow(_, _, _, _, _, _)
BestInRow(pc, curr_bb_cnt, i, j, max_count, id_max) ==
    IF j >= curr_bb_cnt THEN id_max
    ELSE IF pc[i * curr_bb_cnt + j] > max_count
         THEN BestInRow(pc, curr_bb_cnt, i, j + 1, pc[i * curr_bb_cnt + j], j)
         ELSE BestInRow(pc, curr_bb_cnt, i, j + 1, max_count, id_max)

\* Lines 329-342: bbBestMatches[i] = id_max for every previous-frame box.
PickBest(old, pc, prev_bb_cnt, curr_bb_cnt) ==
    [i \in (DOMAIN old) \cup 0..(prev_bb_cnt - 1) |->
        IF i \in 0..(prev_bb_cnt - 1)
        THEN BestInRow(pc, curr_bb_cnt, i, 0, 0, 0)
        ELSE old[i]]

EmptyMap == [i \in {} |-> 0]

\* What an int of the stack may hold before point_count is placed on it: any
\* int.  The call uses such a cell in two ways only: it adds one vote per
\* match at most (line 322) and compares the sum with a vote count of
\* column 0, a number of 0 .. MaxMatches (line 335; CurrLayouts has two
\* columns at most, so one cell of the array is uninitialized).  Every int
\* then acts as one of these: an int near zero as itself, an int below as
\* INT_MIN, an int above as 32765 (the upper half of a stack address),
\* unless the votes carry it past INT_MAX.
StackResidue ==
    { k - (MaxMatches + 1) : k \in 0..(2 * MaxMatches + 2) }
        \cup { IntMin, 32765 }
        \cup { IntMax - k : k \in 0..MaxMatches }

\* Line 284: int point_count[prev_bb_cnt][curr_bb_cnt] = {0}; an initializer
\* on a variable-length array (a GNU extension).  g++ stores the listed 0 in
\* point_count[0][0] and clears the rows from 1 on; the rest of row 0,
\* point_count[0][1 .. curr_bb_cnt - 1], is left as the stack had it.
PointCountInit(prev_bb_cnt, curr_bb_cnt) ==
    { pc \in [0..(prev_bb_cnt * curr_bb_cnt - 1) -> StackResidue] :
        \A c \in DOMAIN pc : (c = 0 \/ c >= curr_bb_cnt) => pc[c] = 0 }

\* The storage a vector of `size` elements may own: exactly its elements
\* (none at all for a vector that never held one) or room for one more (a
\* vector that was cleared, shrunk or reserved).
Capacities(size) == { size, size + 1 }

InitMatch ==
    /\ \E pl \in PrevLayouts, cl \in CurrLayouts :
          /\ prevFrame = [keypoints |-> MatchKptsPrev,
                          boundingBoxes |-> [b \in DOMAIN pl |-> [roi |-> pl[b]]]]
          /\ currFrame = [keypoints |-> MatchKptsCurr,
                          boundingBoxes |-> [b \in DOMAIN cl |-> [roi |-> cl[b]]]]
          /\ currCapacity \in Capacities(Len(cl))
    /\ matches \in SeqsUpTo(MatchSet, MaxMatches)
    /\ bbBestMatches = EmptyMap
    /\ trainTested = {}
    /\ matchPc = "start"

IdleMatch ==
    /\ prevFrame = [keypoints |-> <<>>, boundingBoxes |-> <<>>]
    /\ currFrame = [keypoints |-> <<>>, boundingBoxes |-> <<>>]
    /\ currCapacity = 0 /\ matches = <<>> /\ bbBestMatches = EmptyMap
    /\ trainTested = {} /\ matchPc = "idle"

\* The out-of-range reads of line 311 happen.
ReadsPastEnd ==
    /\ Len(matches) > 0
    /\ Len(prevFrame.boundingBoxes) > Len(currFrame.boundingBoxes)

\* The vector owns no storage: currFrame.boundingBoxes[0] is a read through
\* the null pointer.  An empty vector that owns storage is read without a
\* fault.
NoStorage == currCapacity = 0

\* The call returns: no read of line 311 faults.  The reads past the end
\* find the bytes of the storage or of the heap behind it (garbage).
MatchReturns ==
    LET prev_bb_cnt == Len(prevFrame.boundingBoxes)
        curr_bb_cnt == Len(currFrame.boundingBoxes)
        pastEnd == curr_bb_cnt..(prev_bb_cnt - 1)
    IN  /\ ~(ReadsPastEnd /\ NoStorage)
        /\ \E garbage \in [1..Len(matches) -> SUBSET pastEnd],
              pc0 \in PointCountInit(prev_bb_cnt, curr_bb_cnt) :
              LET point_count == CountPoints(pc0, prevFrame, currFrame, matches,
                                             garbage, 0)
              IN  bbBestMatches' = PickBest(bbBestMatches, point_count,
                                            prev_bb_cnt, curr_bb_cnt)
        /\ trainTested' = IF Len(matches) > 0
                          THEN TrainLoopRange(prev_bb_cnt, curr_bb_cnt)
                          ELSE {}
        /\ matchPc' = "done"

\* A read of line 311 behind the storage of the vector faults at index
\* fault, the first one when the vector has no storage: the process ends in
\* the loop over the matches, before any entry of bbBestMatches is written.
MatchCrashes ==
    LET prev_bb_cnt == Len(prevFrame.boundingBoxes)
        curr_bb_cnt == Len(currFrame.boundingBoxes)
        pastEnd == curr_bb_cnt..(prev_bb_cnt - 1)
    IN  /\ ReadsPastEnd
        /\ \E fault \in pastEnd \cap TrainLoopRange(prev_bb_cnt, curr_bb_cnt) :
              /\ fault >= currCapacity
              /\ NoStorage => fault = 0
              /\ trainTested' = 0..fault
        /\ matchPc' = "crashed"
        /\ UNCHANGED bbBestMatches

\* Line 284 with curr_bb_cnt = 0: the array has no cell, and g++ still
\* stores the 0 of the initializer at its base, over whatever the frame keeps
\* there.  In the -O2 build that is the saved reference to bbBestMatches:
\* both loops run to their end and the first bbBestMatches[i] of line 341
\* faults, before any entry is written.  The other builds return.
MatchCrashesAtStore ==
    LET prev_bb_cnt == Len(prevFrame.boundingBoxes)
        curr_bb_cnt == Len(currFrame.boundingBoxes)
    IN  /\ prev_bb_cnt >= 1 /\ curr_bb_cnt = 0
        /\ ~(ReadsPastEnd /\ NoStorage)
        /\ trainTested' = IF Len(matches) > 0
                          THEN TrainLoopRange(prev_bb_cnt, curr_bb_cnt)
                          ELSE {}
        /\ matchPc' = "crashed"
        /\ UNCHANGED bbBestMatches

CallMatchBoundingBoxes ==
    /\ matchPc = "start"
    /\ (MatchReturns \/ MatchCrashes \/ MatchCrashesAtStore)
    /\ UNCHANGED <<prevFrame, currFrame, currCapacity, matches>>

-----------------------------------------------------------------------------
(* Specifications: one per function. *)

InitSpecROI == InitROI /\ IdleKpt /\ IdleMedian /\ IdleCamera /\ IdleLidar /\ IdleMatch
NextROI ==
    CallClusterLidarWithROI
        /\ UNCHANGED <<varsKpt, varsMedian, varsCamera, varsLidar, varsMatch>>
SpecROI == InitSpecROI /\ [][NextROI]_vars

InitSpecKpt == IdleROI /\ InitKpt /\ IdleMedian /\ IdleCamera /\ IdleLidar /\ IdleMatch
NextKpt ==
    CallClusterKptMatchesWithROI
        /\ UNCHANGED <<varsROI, varsMedian, varsCamera, varsLidar, varsMatch>>
SpecKpt == InitSpecKpt /\ [][NextKpt]_vars

InitSpecMedian == IdleROI /\ IdleKpt /\ InitMedian /\ IdleCamera /\ IdleLidar /\ IdleMatch
NextMedian ==
    CallMedian /\ UNCHANGED <<varsROI, varsKpt, varsCamera, varsLidar, varsMatch>>
SpecMedian == InitSpecMedian /\ [][NextMedian]_vars

InitSpecCamera == IdleROI /\ IdleKpt /\ IdleMedian /\ InitCamera /\ IdleLidar /\ IdleMatch
NextCamera ==
    CallComputeTTCCamera
        /\ UNCHANGED <<varsROI, varsKpt, varsMedian, varsLidar, varsMatch>>
SpecCamera == InitSpecCamera /\ [][NextCamera]_vars

InitSpecLidar == IdleROI /\ IdleKpt /\ IdleMedian /\ IdleCamera /\ InitLidar /\ IdleMatch
NextLidar ==
    CallComputeTTCLidar
        /\ UNCHANGED <<varsROI, varsKpt, varsMedian, varsCamera, varsMatch>>
SpecLidar == InitSpecLidar /\ [][NextLidar]_vars

InitSpecMatch == IdleROI /\ IdleKpt /\ IdleMedian /\ IdleCamera /\ IdleLidar /\ InitMatch
NextMatch ==
    CallMatchBoundingBoxes
        /\ UNCHANGED <<varsROI, varsKpt, varsMedian, varsCamera, varsLidar>>
SpecMatch == InitSpecMatch /\ [][NextMatch]_vars

\* Any one of the functions.
Init ==
    \/ InitSpecROI
    \/ InitSpecKpt
    \/ InitSpecMedian
    \/ InitSpecCamera
    \/ InitSpecLidar
    \/ InitSpecMatch
Next == NextROI \/ NextKpt \/ NextMedian \/ NextCamera \/ NextLidar \/ NextMatch
Spec == Init /\ [][Next]_vars

-----------------------------------------------------------------------------
(* Properties of matchBoundingBoxes (SpecMatch). *)

MatchEnded == matchPc \in {"done", "crashed"}

\* C1: for every correspondence, the current-frame boxes tested for
\* containment of the current keypoint are exactly the boxes of the current
\* frame, indices 0 .. currBoxCount - 1, whatever the previous frame's box
\* count is.
C1_TrainLoopOverCurrentBoxes ==
    (MatchEnded /\ Len(matches) > 0)
        => trainTested = 0..(Len(currFrame.boundingBoxes) - 1)

\* votes[i][j]: the correspondences whose previous keypoint lies in previous
\* box i and whose current keypoint lies in current box j.
Votes(i, j) ==
    Cardinality({ k \in 1..Len(matches) :
        /\ Contains(At(prevFrame.boundingBoxes, i).roi,
                    PointTruncated(At(prevFrame.keypoints, matches[k].queryIdx)))
        /\ Contains(At(currFrame.boundingBoxes, j).roi,
                    PointTruncated(At(currFrame.keypoints, matches[k].trainIdx))) })

LowestArgMax(i) ==
    LET cols == 0..(Len(currFrame.boundingBoxes) - 1)
    IN  IF \A j \in cols : Votes(i, j) = 0 THEN 0
        ELSE CHOOSE j \in cols :
                /\ \A c \in cols : Votes(i, c) <= Votes(i, j)
                /\ \A c \in cols : Votes(i, c) = Votes(i, j) => j <= c

\* C2: the output has exactly one entry per previous-frame box i, the lowest
\* index j among the current-frame boxes with the maximum votes[i][j], and 0
\* when every vote of row i is zero.
C2_BestMatchIsLowestArgMax ==
    matchPc = "done"
        => /\ DOMAIN bbBestMatches = 0..(Len(prevFrame.boundingBoxes) - 1)
           /\ \A i \in DOMAIN bbBestMatches : bbBestMatches[i] = LowestArgMax(i)

-----------------------------------------------------------------------------
(* Properties of clusterLidarWithROI (SpecROI). *)

Range(s) == {s[i] : i \in DOMAIN s}

Count(s, e) == Cardinality({i \in DOMAIN s : s[i] = e})

RECURSIVE Repeat(_, _)
Repeat(s, k) == IF k = 0 THEN <<>> ELSE s \o Repeat(s, k - 1)

\* What the latest call appended to box b.
Added(b) ==
    SubSeq(boundingBoxes[b].lidarPoints, Len(roiBefore[b]) + 1,
           Len(boundingBoxes[b].lidarPoints))

\* The boxes whose shrunk region contains the pixel the call computes for p.
Enclosing(p) ==
    { b \in DOMAIN boundingBoxes :
        Contains(SmallerBox(boundingBoxes[b].roi, shrinkFactor),
                 LidarPixel(p, fpToInt)) }

\* C3: within one call each input range point is appended to at most one
\* box: it is appended to a box exactly when that box's shrunk region is the
\* only shrunk region containing the point's projected pixel (pt of lines
\* 31-33), and to no box when no region or several regions contain it.
C3_AttachedIffOnlyEnclosingBox ==
    roiCalls > 0 =>
        /\ \A b \in DOMAIN boundingBoxes :
              /\ SubSeq(boundingBoxes[b].lidarPoints, 1, Len(roiBefore[b])) = roiBefore[b]
              /\ Range(Added(b)) \subseteq Range(lidarPoints)
        /\ \A p \in Range(lidarPoints) :
              /\ SumSeq([b \in DOMAIN boundingBoxes |-> Count(Added(b), p)])
                    <= Count(lidarPoints, p)
              /\ \A b \in DOMAIN boundingBoxes :
                    Count(Added(b), p) =
                        IF Enclosing(p) = {b} THEN Count(lidarPoints, p) ELSE 0

\* One call attached a point to its only enclosing box and dropped a point
\* that two shrunk regions contain.
C3_Witness ==
    /\ roiCalls = 1
    /\ \E p \in Range(lidarPoints), b \in DOMAIN boundingBoxes :
          Enclosing(p) = {b} /\ Count(Added(b), p) > 0
    /\ \E p \in Range(lidarPoints) :
          /\ Cardinality(Enclosing(p)) >= 2
          /\ \A b \in DOMAIN boundingBoxes : Count(Added(b), p) = 0

\* The homogeneous scale component w of the projected vector Y = (u, v, w).
ScaleW(p) == Project(p)[3]

\* C4: a range point whose projected homogeneous scale component w is zero
\* is skipped: it is attached to no bounding box.
C4_DegeneratePointSkipped ==
    roiCalls > 0 =>
        \A p \in Range(lidarPoints) :
            ScaleW(p) = 0 => \A b \in DOMAIN boundingBoxes : Count(Added(b), p) = 0

\* The points one call attaches to box b, in input order.
Attached(b) == SelectSeq(lidarPoints, LAMBDA p : Enclosing(p) = {b})

\* C10: the call never clears a box's lidarPoints: after k calls with the
\* same boxes, points, shrinkFactor and calibration every box holds the
\* points it had before, followed by k copies of the points one call
\* attaches, in input order.
C10_Additive ==
    \A b \in DOMAIN boundingBoxes :
        boundingBoxes[b].lidarPoints = roiInitial[b] \o Repeat(Attached(b), roiCalls)

\* Two calls on a box that held a point before and gets points from a call.
C10_Witness ==
    /\ roiCalls = 2
    /\ \E b \in DOMAIN boundingBoxes :
          /\ roiInitial[b] # <<>>
          /\ Attached(b) # <<>>
          /\ Len(boundingBoxes[b].lidarPoints) = Len(roiInitial[b]) + 2 * Len(Attached(b))

-----------------------------------------------------------------------------
(* Properties of clusterKptMatchesWithROI (SpecKpt). *)

\* The containment-filtered set of the latest call.
Filtered ==
    SelectSeq(kptMatchesIn,
              LAMBDA m : InROI(boundingBox.roi, KptsCurrROI, m, containsRounds))

\* C5: after any call, whatever boundingBox.kptMatches held before it,
\* kptMatches contains only correspondences of the given list whose current
\* keypoint lies inside the box's region and whose distance is strictly below
\* 0.8 times the mean distance of the call's containment-filtered set; when
\* the filtered set is empty, kptMatches is empty.
C5_OnlyInliersOfThisCall ==
    kptCalls > 0 =>
        /\ \A m \in Range(boundingBox.kptMatches) :
              /\ m \in Range(Filtered)
              /\ 5 * Len(Filtered) * m.distance < 4 * SumDistance(Filtered)
        /\ Filtered = <<>> => boundingBox.kptMatches = <<>>

-----------------------------------------------------------------------------
(* Properties of median (SpecMedian). *)

Reverse(v) == [i \in 1..Len(v) |-> v[Len(v) + 1 - i]]

\* v sorted ascending.
Sorted(v) ==
    CHOOSE w \in {[i \in 1..Len(v) |-> v[f[i]]] : f \in Perms(Len(v))} :
        \A i, j \in 1..Len(v) : i < j => ~FLess(w[j], w[i])

SortedMedian(v) ==
    LET n == Len(v) \div 2
    IN  IF Len(v) = 0 THEN FInt(0)
        ELSE IF Len(v) % 2 = 1 THEN At(Sorted(v), n)
        ELSE FDiv(FAdd(At(Sorted(v), n - 1), At(Sorted(v), n)), FInt(2))

\* C6: for every non-empty input the returned value is the one obtained by
\* sorting the input ascending and taking element n/2 (odd n) or the average
\* of elements n/2-1 and n/2 (even n), whatever the input order (the reversed
\* input gives the same value); for the empty input it is 0.0.
C6_MedianIsSortedMiddle ==
    medianPc = "done" =>
        /\ medianRet = SortedMedian(medianIn)
        /\ \A out \in MedianOutcomes(Reverse(medianIn)) : out.retVal = medianRet
        /\ medianIn = <<>> => medianRet = FInt(0)

\* An unsorted input of even length whose two middle order statistics differ.
C6_Witness ==
    /\ medianPc = "done"
    /\ Len(medianIn) = 4
    /\ medianIn # Sorted(medianIn)
    /\ distRatios # medianIn
    /\ Sorted(medianIn)[2] # Sorted(medianIn)[3]
    /\ medianRet = SortedMedian(medianIn)

-----------------------------------------------------------------------------
(* Properties of computeTTCLidar (SpecLidar). *)

InLane(pts) == SelectSeq(pts, LAMBDA p : 2 * Abs(p.y) <= laneWidth)

MeanX(pts) ==
    Frac(SumSeq([i \in 1..Len(InLane(pts)) |-> InLane(pts)[i].x]), Len(InLane(pts)))

BothInLane == InLane(lidarPointsPrev) # <<>> /\ InLane(lidarPointsCurr) # <<>>

TenToNine ==
    /\ lidarPc = "done"
    /\ BothInLane
    /\ MeanX(lidarPointsPrev) = FInt(10)
    /\ MeanX(lidarPointsCurr) = FInt(9)
    /\ frameRate = 10

\* C7 as stated: in-lane mean x 10.0 in the previous frame, 9.0 in the
\* current frame and frameRate = 10 give TTC = 9.0.
C7_TTCIsNine == TenToNine => TTC = FInt(9)

\* C7 as amended: these inputs give TTC = 9.0 * 0.1 / (10.0 - 9.0) = 0.9.
C7_TTCIsNineTenths == TenToNine => TTC = Frac(9, 10)

C7_Witness == TenToNine /\ Len(lidarPointsPrev) = 2 /\ TTC = Frac(9, 10)

EqualMeans ==
    /\ lidarPc = "done"
    /\ BothInLane
    /\ MeanX(lidarPointsPrev) = MeanX(lidarPointsCurr)

\* C8: whenever both lane-filtered sets are non-empty and their mean x
\* values are equal, the result is infinite and never not-a-number, for
\* every value of the common mean (mean 0 included).
C8_EqualMeansInfinite == EqualMeans => (IsInf(TTC) /\ ~IsNaN(TTC))

-----------------------------------------------------------------------------
(* Properties of computeTTCCamera (SpecCamera). *)

\* The recorded ratios that come from the unordered pair {i, j}.
RatiosOf(i, j) ==
    Cardinality({ k \in DOMAIN camRatios : {camRatios[k].it1, camRatios[k].it2} = {i, j} })

\* C9: the pairwise enumeration visits each unordered pair of distinct
\* correspondences exactly once, so distRatios holds at most one ratio per
\* unordered pair {c1, c2} (no pair is counted twice) and none for a
\* correspondence paired with itself.
C9_EachPairOnce ==
    camPc = "done" =>
        \A i, j \in 0..(Len(camMatches) - 1) :
            RatiosOf(i, j) <= (IF i = j THEN 0 ELSE 1)

=============================================================================
